---- MODULE Spec2Model ----
(***************************************************************************)
(* Location reconciliation of elffjs/locgen: ProcessSignals (src/main.go)  *)
(* as a state machine over one call.  Time is counted in milliseconds;     *)
(* zeroTime is Go's zero time.Time, every other sample instant is later.   *)
(* Slot indices are 1-based positions in the sorted slice, NoIndex is the  *)
(* source's sentinel -1.                                                   *)
(***************************************************************************)
EXTENDS Integers, Sequences, FiniteSets, Bags, TLC

\* ---------------------------------------------------------------- constants
fieldLatitude == "currentLocationLatitude"
fieldLongitude == "currentLocationLongitude"
fieldHDOP == "dimoAftermarketHDOP"
fieldSpeed == "speed"
fieldCoordinates == "currentLocationCoordinates"

\* 5 * time.Minute and 500 * time.Millisecond, in milliseconds.
futureAllowance == 300000
allowedLocationGap == 500

zeroTime == 0
NoIndex == -1

\* The instant time.Now() returns during the call.
now == 1600

\* The second file (Store).
maxLocationTimestampGap == 500
fieldLocation == "currentLocation"

\* ------------------------------------------------------------------- bounds
MaxLen == 3

\* Sample instants: the zero time, a base instant, the base plus exactly the
\* gap, one millisecond more, and an instant beyond now + futureAllowance.
BaseTime == 1000

\* Longest slice handed to a Store.
StoreMaxLen == 3
TimeSeq == <<zeroTime, BaseTime, BaseTime + allowedLocationGap,
             BaseTime + allowedLocationGap + 1, now + futureAllowance + 400>>

\* Sample name/value pairs: both coordinates at zero and away from zero, an
\* HDOP reading and a signal that belongs to no slot.
KindSeq == <<[name |-> fieldLatitude, value |-> 0], [name |-> fieldLatitude, value |-> 1],
             [name |-> fieldLongitude, value |-> 0], [name |-> fieldLongitude, value |-> 1],
             [name |-> fieldHDOP, value |-> 2], [name |-> fieldSpeed, value |-> 55]>>

Times == {TimeSeq[k] : k \in DOMAIN TimeSeq}
Names == {KindSeq[k].name : k \in DOMAIN KindSeq}

\* Entity id and passthrough fields of a payload.
MetaA == [TokenID |-> 3, Source |-> "srcA", Producer |-> "prodA", CloudEventID |-> "evA"]
MetaB == [TokenID |-> 4, Source |-> "srcB", Producer |-> "prodB", CloudEventID |-> "evB"]

\* ------------------------------------------------------------------ records
zeroLocation == [Latitude |-> 0, Longitude |-> 0, HDOP |-> 0]

\* vss.Signal as far as the code reads or writes it.
Signal(m, ts, name, v) ==
  [TokenID |-> m.TokenID, Timestamp |-> ts, Name |-> name, ValueNumber |-> v,
   ValueLocation |-> zeroLocation,
   Source |-> m.Source, Producer |-> m.Producer, CloudEventID |-> m.CloudEventID]

\* The sample records, numbered 1..CatalogSize.
CatalogSize == Len(TimeSeq) * Len(KindSeq)
CatalogTime(c) == TimeSeq[((c - 1) \div Len(KindSeq)) + 1]
CatalogKind(c) == KindSeq[((c - 1) % Len(KindSeq)) + 1]

\* Index lists of length n in catalog order, none below lo.
RECURSIVE Ascending(_, _)
Ascending(n, lo) ==
  IF n = 0 THEN {<<>>}
  ELSE UNION {{<<c>> \o t : t \in Ascending(n - 1, c)} : c \in lo..CatalogSize}

\* A batch a caller can pass.  The first record may carry other payload-wide
\* fields than the rest.  The function reads the caller's order only through
\* signals[0] (line 54) and sorts the rest, so the records after the first
\* are listed in catalog order (idx is any first entry, then Ascending).
Batch(n, m, idx) ==
  [k \in 1..n |->
     Signal(IF k = 1 THEN m ELSE MetaA, CatalogTime(idx[k]),
            CatalogKind(idx[k]).name, CatalogKind(idx[k]).value)]

\* ------------------------------------------------------------ pure helpers
\* fmtTime: RFC3339 keeps whole seconds only.
fmtTime(t) == t \div 1000

\* cmp.Compare on the signal names: lexicographic order of the strings.
NameRank(name) ==
  CASE name = fieldLatitude -> 1
    [] name = fieldLongitude -> 2
    [] name = fieldHDOP -> 3
    [] OTHER -> 4

\* The comparison function handed to slices.SortFunc.
SortCmp(a, b) ==
  IF a.Timestamp < b.Timestamp THEN -1
  ELSE IF a.Timestamp > b.Timestamp THEN 1
  ELSE IF NameRank(a.Name) < NameRank(b.Name) THEN -1
  ELSE IF NameRank(a.Name) > NameRank(b.Name) THEN 1
  ELSE 0

IsSorted(s) == \A k \in 1..(Len(s) - 1) : SortCmp(s[k], s[k + 1]) <= 0

SeqBag(s) == [r \in {s[k] : k \in DOMAIN s} |-> Cardinality({k \in DOMAIN s : s[k] = r})]

\* slices.SortFunc is not stable: every arrangement of the slice that the
\* comparison accepts as sorted is a possible outcome.
RECURSIVE Arrangements(_, _)
Arrangements(s, left) ==
  IF left = {} THEN {<<>>}
  ELSE UNION {{<<s[m]>> \o t : t \in Arrangements(s, left \ {m})} :
                m \in {k \in left : \A j \in left : SortCmp(s[k], s[j]) <= 0}}

\* Faulty variant: the sort is missing.
SortOutcomesUnsorted(s) == {s}

SortOutcomes(s) == Arrangements(s, DOMAIN s)

\* -------------------------------------------------------------------- state
VARIABLES
  input,     \* the slice as the caller passed it
  signals,   \* the slice as the function sees it (sorted in place)
  template,  \* copy of signals[0] taken before the sort
  errs,      \* errors joined so far, oldest first
  drop,      \* drop[k]: record k of the sorted slice is removed
  created,   \* location rows created so far
  lastLat,   \* slot: position of the latitude of the triple in progress
  lastLon,   \* slot: position of its longitude
  lastHDOP,  \* slot: position of its HDOP
  lastTime,  \* timestamp of the triple in progress, zeroTime if none
  i,         \* loop position in the sorted slice
  pc,        \* position in the function body
  out,       \* returned slice
  why,       \* history: which statement set drop[k] ("" while kept)
  contrib,   \* history: per created row, the slots it was built from
  store,     \* the Store object (and, as history, why each record was marked)
  storeI,    \* ProcessAll: loop position
  storePc,   \* ProcessAll: position in the method body
  storeOut   \* ProcessAll: returned slice

passVars == <<input, signals, template, errs, drop, created, lastLat, lastLon,
              lastHDOP, lastTime, i, pc, out, why, contrib>>
storeVars == <<store, storeI, storePc, storeOut>>

vars == <<input, signals, template, errs, drop, created, lastLat, lastLon,
          lastHDOP, lastTime, i, pc, out, why, contrib,
          store, storeI, storePc, storeOut>>

\* The closure variables of ProcessSignals, as one value.
Pass ==
  [signals |-> signals, template |-> template, errs |-> errs, drop |-> drop,
   created |-> created, lastLat |-> lastLat, lastLon |-> lastLon,
   lastHDOP |-> lastHDOP, lastTime |-> lastTime, why |-> why, contrib |-> contrib]

Commit(p) ==
  /\ signals' = p.signals
  /\ template' = p.template
  /\ errs' = p.errs
  /\ drop' = p.drop
  /\ created' = p.created
  /\ lastLat' = p.lastLat
  /\ lastLon' = p.lastLon
  /\ lastHDOP' = p.lastHDOP
  /\ lastTime' = p.lastTime
  /\ why' = p.why
  /\ contrib' = p.contrib

\* Faulty variant: the template is read after the sort.
NewPassTemplateAfterSort(sorted, tmpl) ==
  [signals |-> sorted, template |-> sorted[1], errs |-> <<>>,
   drop |-> [k \in 1..Len(sorted) |-> FALSE], created |-> <<>>,
   lastLat |-> NoIndex, lastLon |-> NoIndex, lastHDOP |-> NoIndex,
   lastTime |-> zeroTime, why |-> [k \in 1..Len(sorted) |-> ""], contrib |-> <<>>]

\* The declarations at the head of ProcessSignals, for an already sorted slice.
NewPass(sorted, tmpl) ==
  [signals |-> sorted, template |-> tmpl, errs |-> <<>>,
   drop |-> [k \in 1..Len(sorted) |-> FALSE], created |-> <<>>,
   lastLat |-> NoIndex, lastLon |-> NoIndex, lastHDOP |-> NoIndex,
   lastTime |-> zeroTime, why |-> [k \in 1..Len(sorted) |-> ""], contrib |-> <<>>]

\* ------------------------------------------------------- error messages
ErrOrigin(t) == [msg |-> "latitude and longitude at origin", time |-> fmtTime(t)]
ErrUnpairedLat(t) == [msg |-> "unpaired latitude", time |-> fmtTime(t)]
ErrUnpairedLon(t) == [msg |-> "unpaired longitude", time |-> fmtTime(t)]
ErrFuture(sig) ==
  [msg |-> "future timestamp", name |-> sig.Name, time |-> fmtTime(sig.Timestamp)]

\* ------------------------------------------------------------ the closures
\* Faulty variant: the (0, 0) test is missing, every filled pair becomes a row.
tryCreateLocationSignalNoOrigin(p) ==
  LET hasLat == p.lastLat # NoIndex
      hasLon == p.lastLon # NoIndex
      hasHDOP == p.lastHDOP # NoIndex
      pair == hasLat /\ hasLon
      create == pair \/ hasHDOP
      loc == [Latitude |-> IF pair THEN p.signals[p.lastLat].ValueNumber ELSE 0,
              Longitude |-> IF pair THEN p.signals[p.lastLon].ValueNumber ELSE 0,
              HDOP |-> IF hasHDOP THEN p.signals[p.lastHDOP].ValueNumber ELSE 0]
      row == [TokenID |-> p.template.TokenID, Timestamp |-> p.lastTime,
              Name |-> fieldCoordinates, ValueNumber |-> 0, ValueLocation |-> loc,
              Source |-> p.template.Source, Producer |-> p.template.Producer,
              CloudEventID |-> p.template.CloudEventID]
      dropped == IF pair THEN {}
                 ELSE IF hasLat THEN {p.lastLat}
                 ELSE IF hasLon THEN {p.lastLon}
                 ELSE {}
      e == IF hasLat /\ ~hasLon THEN <<ErrUnpairedLat(p.lastTime)>>
           ELSE IF hasLon /\ ~hasLat THEN <<ErrUnpairedLon(p.lastTime)>>
           ELSE <<>>
  IN [p EXCEPT
        !.drop = [k \in DOMAIN p.drop |-> p.drop[k] \/ k \in dropped],
        !.why = [k \in DOMAIN p.why |-> IF k \in dropped THEN "unpaired" ELSE p.why[k]],
        !.errs = p.errs \o e,
        !.created = IF create THEN Append(p.created, row) ELSE p.created,
        !.contrib = IF create
                      THEN Append(p.contrib,
                                  [lat |-> IF pair THEN p.lastLat ELSE NoIndex,
                                   lon |-> IF pair THEN p.lastLon ELSE NoIndex,
                                   hdop |-> p.lastHDOP])
                      ELSE p.contrib,
        !.lastLat = NoIndex, !.lastLon = NoIndex, !.lastHDOP = NoIndex,
        !.lastTime = zeroTime]

\* A flush that marks `dropped` with reason `reason`, joins the errors e and
\* creates a row from the slots when `create` says so.
FlushOutcome(p, pair, create, dropped, reason, e) ==
  LET hasHDOP == p.lastHDOP # NoIndex
      loc == [Latitude |-> IF pair THEN p.signals[p.lastLat].ValueNumber ELSE 0,
              Longitude |-> IF pair THEN p.signals[p.lastLon].ValueNumber ELSE 0,
              HDOP |-> IF hasHDOP THEN p.signals[p.lastHDOP].ValueNumber ELSE 0]
      row == [TokenID |-> p.template.TokenID, Timestamp |-> p.lastTime,
              Name |-> fieldCoordinates, ValueNumber |-> 0, ValueLocation |-> loc,
              Source |-> p.template.Source, Producer |-> p.template.Producer,
              CloudEventID |-> p.template.CloudEventID]
  IN [p EXCEPT
        !.drop = [k \in DOMAIN p.drop |-> p.drop[k] \/ k \in dropped],
        !.why = [k \in DOMAIN p.why |-> IF k \in dropped THEN reason ELSE p.why[k]],
        !.errs = p.errs \o e,
        !.created = IF create THEN Append(p.created, row) ELSE p.created,
        !.contrib = IF create
                      THEN Append(p.contrib,
                                  [lat |-> IF pair THEN p.lastLat ELSE NoIndex,
                                   lon |-> IF pair THEN p.lastLon ELSE NoIndex,
                                   hdop |-> p.lastHDOP])
                      ELSE p.contrib,
        !.lastLat = NoIndex, !.lastLon = NoIndex, !.lastHDOP = NoIndex,
        !.lastTime = zeroTime]

\* Faulty variant: a row is created for a valid pair only, a filled HDOP slot
\* alone creates none.
tryCreateLocationSignalPairOnly(p) ==
  LET hasLat == p.lastLat # NoIndex
      hasLon == p.lastLon # NoIndex
      origin == /\ hasLat /\ hasLon
                /\ p.signals[p.lastLat].ValueNumber = 0
                /\ p.signals[p.lastLon].ValueNumber = 0
      pair == hasLat /\ hasLon /\ ~origin
  IN FlushOutcome(p, pair, pair,
                  IF origin THEN {p.lastLat, p.lastLon}
                  ELSE IF hasLat /\ hasLon THEN {}
                  ELSE {p.lastLat, p.lastLon} \ {NoIndex},
                  IF origin THEN "origin" ELSE "unpaired",
                  IF origin THEN <<ErrOrigin(p.lastTime)>>
                  ELSE IF hasLat /\ ~hasLon THEN <<ErrUnpairedLat(p.lastTime)>>
                  ELSE IF hasLon /\ ~hasLat THEN <<ErrUnpairedLon(p.lastTime)>>
                  ELSE <<>>)

\* Faulty variant: an origin pair ends the flush, a filled HDOP slot then
\* creates no row.
tryCreateLocationSignalOriginReturns(p) ==
  LET hasLat == p.lastLat # NoIndex
      hasLon == p.lastLon # NoIndex
      hasHDOP == p.lastHDOP # NoIndex
      origin == /\ hasLat /\ hasLon
                /\ p.signals[p.lastLat].ValueNumber = 0
                /\ p.signals[p.lastLon].ValueNumber = 0
      pair == hasLat /\ hasLon /\ ~origin
  IN FlushOutcome(p, pair, (pair \/ hasHDOP) /\ ~origin,
                  IF origin THEN {p.lastLat, p.lastLon}
                  ELSE IF hasLat /\ hasLon THEN {}
                  ELSE {p.lastLat, p.lastLon} \ {NoIndex},
                  IF origin THEN "origin" ELSE "unpaired",
                  IF origin THEN <<ErrOrigin(p.lastTime)>>
                  ELSE IF hasLat /\ ~hasLon THEN <<ErrUnpairedLat(p.lastTime)>>
                  ELSE IF hasLon /\ ~hasLat THEN <<ErrUnpairedLon(p.lastTime)>>
                  ELSE <<>>)

\* tryCreateLocationSignal: the flush of the triple in progress.
tryCreateLocationSignal(p) ==
  LET hasLat == p.lastLat # NoIndex
      hasLon == p.lastLon # NoIndex
      hasHDOP == p.lastHDOP # NoIndex
      origin == /\ hasLat /\ hasLon
                /\ p.signals[p.lastLat].ValueNumber = 0
                /\ p.signals[p.lastLon].ValueNumber = 0
      pair == hasLat /\ hasLon /\ ~origin
      create == pair \/ hasHDOP
      loc == [Latitude |-> IF pair THEN p.signals[p.lastLat].ValueNumber ELSE 0,
              Longitude |-> IF pair THEN p.signals[p.lastLon].ValueNumber ELSE 0,
              HDOP |-> IF hasHDOP THEN p.signals[p.lastHDOP].ValueNumber ELSE 0]
      row == [TokenID |-> p.template.TokenID, Timestamp |-> p.lastTime,
              Name |-> fieldCoordinates, ValueNumber |-> 0, ValueLocation |-> loc,
              Source |-> p.template.Source, Producer |-> p.template.Producer,
              CloudEventID |-> p.template.CloudEventID]
      dropped == IF hasLat /\ hasLon
                   THEN (IF origin THEN {p.lastLat, p.lastLon} ELSE {})
                   ELSE IF hasLat THEN {p.lastLat}
                   ELSE IF hasLon THEN {p.lastLon}
                   ELSE {}
      e == IF origin THEN <<ErrOrigin(p.lastTime)>>
           ELSE IF hasLat /\ ~hasLon THEN <<ErrUnpairedLat(p.lastTime)>>
           ELSE IF hasLon /\ ~hasLat THEN <<ErrUnpairedLon(p.lastTime)>>
           ELSE <<>>
  IN [p EXCEPT
        !.drop = [k \in DOMAIN p.drop |-> p.drop[k] \/ k \in dropped],
        !.why = [k \in DOMAIN p.why |->
                   IF k \in dropped THEN (IF origin THEN "origin" ELSE "unpaired")
                   ELSE p.why[k]],
        !.errs = p.errs \o e,
        !.created = IF create THEN Append(p.created, row) ELSE p.created,
        !.contrib = IF create
                      THEN Append(p.contrib,
                                  [lat |-> IF pair THEN p.lastLat ELSE NoIndex,
                                   lon |-> IF pair THEN p.lastLon ELSE NoIndex,
                                   hdop |-> p.lastHDOP])
                      ELSE p.contrib,
        !.lastLat = NoIndex, !.lastLon = NoIndex, !.lastHDOP = NoIndex,
        !.lastTime = zeroTime]

\* Faulty variant: the default case hands out the HDOP slot.
lastReferenceDefaultHDOP(signalName) ==
  CASE signalName = fieldLatitude -> "lastLat"
    [] signalName = fieldLongitude -> "lastLon"
    [] OTHER -> "lastHDOP"

\* lastReference: the slot a signal name belongs to, "" for no slot.
lastReference(signalName) ==
  CASE signalName = fieldLatitude -> "lastLat"
    [] signalName = fieldLongitude -> "lastLon"
    [] signalName = fieldHDOP -> "lastHDOP"
    [] OTHER -> ""

\* ------------------------------------------------- the loop body, in parts
\* Faulty variant: the gap comparison is strict.
GapFlushesStrict(p, k) ==
  /\ p.lastTime # zeroTime
  /\ p.signals[k].Timestamp - p.lastTime > allowedLocationGap

\* Lines 134-136: the gap check, run first for every record.
GapFlushes(p, k) ==
  /\ p.lastTime # zeroTime
  /\ p.signals[k].Timestamp - p.lastTime >= allowedLocationGap

GapCheck(p, k) == IF GapFlushes(p, k) THEN tryCreateLocationSignal(p) ELSE p

\* Line 141: sig.Timestamp.After(now.Add(futureAllowance)).
IsFuture(sig) == sig.Timestamp > now + futureAllowance

\* Faulty variant: the duplicate guard also compares the values.
IsDuplicateExact(p, k) ==
  /\ k > 1
  /\ p.signals[k].Name = p.signals[k - 1].Name
  /\ p.signals[k].Timestamp = p.signals[k - 1].Timestamp
  /\ p.signals[k].ValueNumber = p.signals[k - 1].ValueNumber

\* Lines 149-151: same name and timestamp as the record before it.
IsDuplicate(p, k) ==
  /\ k > 1
  /\ p.signals[k].Name = p.signals[k - 1].Name
  /\ p.signals[k].Timestamp = p.signals[k - 1].Timestamp

\* Faulty variant: the future guard marks the record but lacks its continue, so a
\* slot can take the record.
DropFutureFallsThrough(p, k) ==
  LET ref == lastReference(p.signals[k].Name)
      q == [p EXCEPT !.errs = Append(p.errs, ErrFuture(p.signals[k])),
                     !.drop[k] = TRUE, !.why[k] = "future"]
  IN IF ref = "" THEN q ELSE [q EXCEPT ![ref] = k]

\* Faulty variant: the future guard drops the record without an error.
DropFutureSilent(p, k) == [p EXCEPT !.drop[k] = TRUE, !.why[k] = "future"]

\* Lines 141-145.
DropFuture(p, k) ==
  [p EXCEPT !.errs = Append(p.errs, ErrFuture(p.signals[k])),
            !.drop[k] = TRUE, !.why[k] = "future"]

\* Lines 149-156.
DropDuplicate(p, k) == [p EXCEPT !.drop[k] = TRUE, !.why[k] = "duplicate"]

\* Faulty variant: a filled slot is overwritten without a flush.
DispatchOverwrites(p, k) ==
  LET ref == lastReference(p.signals[k].Name)
      r == [p EXCEPT ![ref] = k]
  IN IF ref = "" THEN p
     ELSE IF r.lastTime = zeroTime
       THEN [r EXCEPT !.lastTime = p.signals[k].Timestamp]
       ELSE r

\* Faulty variant: lastTime is set before the test for a slot, so a signal
\* that belongs to no slot can start the triple's timestamp.
DispatchTimeBeforeSlotTest(p, k) ==
  LET ref == lastReference(p.signals[k].Name)
      q == IF p[ref] # NoIndex THEN tryCreateLocationSignal(p) ELSE p
      r == [q EXCEPT ![ref] = k]
  IN IF ref = ""
       THEN (IF p.lastTime = zeroTime
               THEN [p EXCEPT !.lastTime = p.signals[k].Timestamp]
               ELSE p)
     ELSE IF r.lastTime = zeroTime
       THEN [r EXCEPT !.lastTime = p.signals[k].Timestamp]
       ELSE r

\* Lines 158-173: slot dispatch of a record that passed the guards.
Dispatch(p, k) ==
  LET ref == lastReference(p.signals[k].Name)
      q == IF p[ref] # NoIndex THEN tryCreateLocationSignal(p) ELSE p
      r == [q EXCEPT ![ref] = k]
  IN IF ref = "" THEN p
     ELSE IF r.lastTime = zeroTime
       THEN [r EXCEPT !.lastTime = p.signals[k].Timestamp]
       ELSE r

\* Lines 180-187: the records not dropped, then the created rows.
RECURSIVE Retained(_, _)
Retained(sigs, dr) ==
  IF sigs = <<>> THEN <<>>
  ELSE (IF dr[1] THEN <<>> ELSE <<Head(sigs)>>) \o Retained(Tail(sigs), Tail(dr))

\* Faulty variant: the drop marks are ignored when the output is put together.
AssembledUnfiltered(p) == p.signals \o p.created

\* Faulty variant: the created rows are put in front of the kept records.
AssembledCreatedFirst(p) == p.created \o Retained(p.signals, p.drop)

Assembled(p) == Retained(p.signals, p.drop) \o p.created

\* ---------------------------------------------------------------- Store
\* Cell: a slot of the Store.  Clear leaves the index in place.
zeroCell == [filled |-> FALSE, index |-> 0]
Filled(c) == c.filled
Get(c) == IF c.filled THEN c.index ELSE NoIndex
Set(c, index) == [filled |-> TRUE, index |-> index]
Clear(c) == [c EXCEPT !.filled = FALSE]

\* TemplateSignal before ProcessAll sets it.
nilSignal == 0

\* New: a Store over the caller's slice, every other field at its zero value.
\* why is history: the statement that first marked each record.
New(sigs) ==
  [Signals |-> sigs, AddedSignals |-> <<>>, TemplateSignal |-> nilSignal,
   ActiveLat |-> zeroCell, ActiveLon |-> zeroCell, ActiveHDOP |-> zeroCell,
   SignalsToDelete |-> <<>>, InFlightTimestamp |-> zeroTime, why |-> <<>>]

GetValue(s, c) == s.Signals[Get(c)].ValueNumber

DropValue(s, signalIndex, reason) ==
  IF signalIndex # NoIndex
    THEN [s EXCEPT !.SignalsToDelete[signalIndex] = TRUE,
                   !.why[signalIndex] = IF @ = "" THEN reason ELSE @]
    ELSE s

\* TryFlush.
TryFlush(s) ==
  LET pair == Filled(s.ActiveLat) /\ Filled(s.ActiveLon)
      flushable == pair \/ Filled(s.ActiveHDOP)
      loc == [Latitude |-> IF pair THEN GetValue(s, s.ActiveLat) ELSE 0,
              Longitude |-> IF pair THEN GetValue(s, s.ActiveLon) ELSE 0,
              HDOP |-> IF Filled(s.ActiveHDOP) THEN GetValue(s, s.ActiveHDOP) ELSE 0]
      t == s.Signals[s.TemplateSignal]
      row == [TokenID |-> t.TokenID, Timestamp |-> s.InFlightTimestamp,
              Name |-> fieldLocation, ValueNumber |-> 0, ValueLocation |-> loc,
              Source |-> t.Source, Producer |-> t.Producer,
              CloudEventID |-> t.CloudEventID]
      d == IF pair THEN s
           ELSE DropValue(DropValue(s, Get(s.ActiveLat), "unpaired"),
                          Get(s.ActiveLon), "unpaired")
  IN [d EXCEPT !.AddedSignals = IF flushable THEN Append(@, row) ELSE @,
               !.ActiveLat = Clear(@), !.ActiveLon = Clear(@),
               !.ActiveHDOP = Clear(@), !.InFlightTimestamp = zeroTime]

HasAnyActive(s) == s.InFlightTimestamp # zeroTime

EnsureTimestamp(s, t) ==
  IF s.InFlightTimestamp = zeroTime THEN [s EXCEPT !.InFlightTimestamp = t] ELSE s

\* GetActiveIndex: the cell of a signal name, "" for nil.
GetActiveIndex(signalName) ==
  CASE signalName = fieldLatitude -> "ActiveLat"
    [] signalName = fieldLongitude -> "ActiveLon"
    [] signalName = fieldHDOP -> "ActiveHDOP"
    [] OTHER -> ""

\* Faulty variant: the duplicate test marks the earlier of the two records.
ProcessDropsEarlier(s, k) ==
  LET sig == s.Signals[k]
      a == IF /\ k > 1
              /\ sig.Timestamp = s.Signals[k - 1].Timestamp
              /\ sig.Name = s.Signals[k - 1].Name
             THEN DropValue(s, k - 1, "duplicate")
             ELSE s
      b == IF /\ HasAnyActive(a)
              /\ sig.Timestamp > a.InFlightTimestamp + maxLocationTimestampGap
             THEN TryFlush(a)
             ELSE a
      cell == GetActiveIndex(sig.Name)
  IN IF cell = "" THEN b
     ELSE EnsureTimestamp(IF Filled(b[cell])
                            THEN DropValue(b, k, "collision")
                            ELSE [b EXCEPT ![cell] = Set(@, k)],
                          sig.Timestamp)

\* Process: duplicate test (no return after it), gap test, cell dispatch.
Process(s, k) ==
  LET sig == s.Signals[k]
      a == IF /\ k > 1
              /\ sig.Timestamp = s.Signals[k - 1].Timestamp
              /\ sig.Name = s.Signals[k - 1].Name
             THEN DropValue(s, k, "duplicate")
             ELSE s
      b == IF /\ HasAnyActive(a)
              /\ sig.Timestamp > a.InFlightTimestamp + maxLocationTimestampGap
             THEN TryFlush(a)
             ELSE a
      cell == GetActiveIndex(sig.Name)
  IN IF cell = "" THEN b
     ELSE EnsureTimestamp(IF Filled(b[cell])
                            THEN DropValue(b, k, "collision")
                            ELSE [b EXCEPT ![cell] = Set(@, k)],
                          sig.Timestamp)

\* The sample records a Store is given: no instant depends on the clock.
StoreCatalogSize == Len(KindSeq) * (Len(TimeSeq) - 1)

\* A slice a caller can hand to New, in the caller's order.
StoreBatch(idx) ==
  [k \in DOMAIN idx |->
     Signal(MetaA, CatalogTime(idx[k]), CatalogKind(idx[k]).name,
            CatalogKind(idx[k]).value)]

\* ------------------------------------------------------------------ actions
Init ==
  /\ \/ input = <<>>
     \/ \E n \in 1..MaxLen :
          \E t \in Ascending(n - 1, 1) :
            \E m \in {MetaA, MetaB}, c \in 1..CatalogSize :
              input = Batch(n, m, <<c>> \o t)
  /\ signals = input
  /\ template = MetaA
  /\ errs = <<>>
  /\ drop = <<>>
  /\ created = <<>>
  /\ lastLat = NoIndex
  /\ lastLon = NoIndex
  /\ lastHDOP = NoIndex
  /\ lastTime = zeroTime
  /\ i = 1
  /\ pc = "start"
  /\ out = <<>>
  /\ why = <<>>
  /\ contrib = <<>>
  /\ store = New(<<>>)
  /\ storeI = 1
  /\ storePc = "start"
  /\ storeOut = <<>>

\* Lines 47-49: an empty slice is returned as it is, with a nil error.
ReturnEmpty ==
  /\ pc = "start"
  /\ Len(signals) = 0
  /\ out' = signals
  /\ pc' = "done"
  /\ UNCHANGED <<input, signals, template, errs, drop, created, lastLat, lastLon,
                 lastHDOP, lastTime, i, why, contrib>>
  /\ UNCHANGED storeVars

\* Lines 54-131: template, fresh state, the in-place sort.
Begin ==
  /\ pc = "start"
  /\ Len(signals) > 0
  /\ \E sorted \in SortOutcomes(signals) : Commit(NewPass(sorted, signals[1]))
  /\ i' = 1
  /\ pc' = "gap"
  /\ UNCHANGED <<input, out>>
  /\ UNCHANGED storeVars

Advance == 
  /\ i' = i + 1
  /\ pc' = IF i + 1 > Len(signals) THEN "final" ELSE "gap"

StepGap ==
  /\ pc = "gap"
  /\ Commit(GapCheck(Pass, i))
  /\ pc' = "guard"
  /\ UNCHANGED <<input, i, out>>
  /\ UNCHANGED storeVars

StepFuture ==
  /\ pc = "guard"
  /\ IsFuture(signals[i])
  /\ Commit(DropFuture(Pass, i))
  /\ Advance
  /\ UNCHANGED <<input, out>>
  /\ UNCHANGED storeVars

StepDuplicate ==
  /\ pc = "guard"
  /\ ~IsFuture(signals[i])
  /\ IsDuplicate(Pass, i)
  /\ Commit(DropDuplicate(Pass, i))
  /\ Advance
  /\ UNCHANGED <<input, out>>
  /\ UNCHANGED storeVars

StepDispatch ==
  /\ pc = "guard"
  /\ ~IsFuture(signals[i])
  /\ ~IsDuplicate(Pass, i)
  /\ Commit(Dispatch(Pass, i))
  /\ Advance
  /\ UNCHANGED <<input, out>>
  /\ UNCHANGED storeVars

\* Faulty variant: the attempt after the loop is missing.
FinalFlushSkipped ==
  /\ pc = "final"
  /\ pc' = "assemble"
  /\ UNCHANGED <<input, signals, template, errs, drop, created, lastLat, lastLon,
                 lastHDOP, lastTime, i, out, why, contrib>>
  /\ UNCHANGED storeVars

\* Line 178: the last attempt after the loop.
FinalFlush ==
  /\ pc = "final"
  /\ Commit(tryCreateLocationSignal(Pass))
  /\ pc' = "assemble"
  /\ UNCHANGED <<input, i, out>>
  /\ UNCHANGED storeVars

\* Lines 180-189.
Assemble ==
  /\ pc = "assemble"
  /\ out' = Assembled(Pass)
  /\ pc' = "done"
  /\ UNCHANGED <<input, signals, template, errs, drop, created, lastLat, lastLon,
                 lastHDOP, lastTime, i, why, contrib>>
  /\ UNCHANGED storeVars

Next ==
  \/ ReturnEmpty
  \/ Begin
  \/ StepGap
  \/ StepFuture
  \/ StepDuplicate
  \/ StepDispatch
  \/ FinalFlush
  \/ Assemble

Spec == Init /\ [][Next]_vars

\* ------------------------------------------------------ Store.ProcessAll
StoreInit ==
  /\ \E n \in 0..StoreMaxLen :
       \E idx \in [1..n -> 1..StoreCatalogSize] : store = New(StoreBatch(idx))
  /\ storeI = 1
  /\ storePc = "start"
  /\ storeOut = <<>>
  /\ input = <<>>
  /\ signals = <<>>
  /\ template = MetaA
  /\ errs = <<>>
  /\ drop = <<>>
  /\ created = <<>>
  /\ lastLat = NoIndex
  /\ lastLon = NoIndex
  /\ lastHDOP = NoIndex
  /\ lastTime = zeroTime
  /\ i = 1
  /\ pc = "start"
  /\ out = <<>>
  /\ why = <<>>
  /\ contrib = <<>>

\* Lines 367-369.
ProcessAllEmpty ==
  /\ storePc = "start"
  /\ Len(store.Signals) = 0
  /\ storeOut' = store.Signals
  /\ storePc' = "done"
  /\ UNCHANGED <<store, storeI>>
  /\ UNCHANGED passVars

\* Lines 371-372.
ProcessAllBegin ==
  /\ storePc = "start"
  /\ Len(store.Signals) > 0
  /\ store' = [store EXCEPT !.TemplateSignal = 1,
                            !.SignalsToDelete = [k \in DOMAIN store.Signals |-> FALSE],
                            !.why = [k \in DOMAIN store.Signals |-> ""]]
  /\ storeI' = 1
  /\ storePc' = "loop"
  /\ UNCHANGED storeOut
  /\ UNCHANGED passVars

\* Lines 374-376: one call of Process.
ProcessAllStep ==
  /\ storePc = "loop"
  /\ store' = Process(store, storeI)
  /\ storeI' = storeI + 1
  /\ storePc' = IF storeI + 1 > Len(store.Signals) THEN "flush" ELSE "loop"
  /\ UNCHANGED storeOut
  /\ UNCHANGED passVars

\* Line 379.
ProcessAllFlush ==
  /\ storePc = "flush"
  /\ store' = TryFlush(store)
  /\ storePc' = "assemble"
  /\ UNCHANGED <<storeI, storeOut>>
  /\ UNCHANGED passVars

\* Lines 381-390.
ProcessAllReturn ==
  /\ storePc = "assemble"
  /\ storeOut' = Retained(store.Signals, store.SignalsToDelete) \o store.AddedSignals
  /\ storePc' = "done"
  /\ UNCHANGED <<store, storeI>>
  /\ UNCHANGED passVars

StoreNext ==
  \/ ProcessAllEmpty
  \/ ProcessAllBegin
  \/ ProcessAllStep
  \/ ProcessAllFlush
  \/ ProcessAllReturn

StoreSpec == StoreInit /\ [][StoreNext]_vars

TypeOK ==
  /\ pc \in {"start", "gap", "guard", "final", "assemble", "done"}
  /\ lastLat \in {NoIndex} \cup DOMAIN signals
  /\ lastLon \in {NoIndex} \cup DOMAIN signals
  /\ lastHDOP \in {NoIndex} \cup DOMAIN signals

\* ------------------------------------------------------- shared vocabulary
Returned == pc = "done"
LoopStarted == pc \in {"gap", "guard", "final", "assemble", "done"} /\ input # <<>>

\* The records the function marked, in sorted order.
RECURSIVE Dropped(_, _)
Dropped(sigs, dr) ==
  IF sigs = <<>> THEN <<>>
  ELSE (IF dr[1] THEN <<Head(sigs)>> ELSE <<>>) \o Dropped(Tail(sigs), Tail(dr))

\* The part of the returned slice that precedes the created rows.
KeptPart == SubSeq(out, 1, Len(out) - Len(created))
CreatedPart == SubSeq(out, Len(out) - Len(created) + 1, Len(out))

Count(f, x) == Cardinality({k \in DOMAIN f : f[k] = x})

\* ---------------------------------------------------------------- claim C1
\* C1: every input record is either marked dropped or appears exactly once and
\* unchanged among the returned records that precede the created rows;
\* retained + dropped = len(input); the only further returned records are the
\* created rows; an empty input gives an empty output and a nil error.
C1_ExactlyOneFate ==
  Returned =>
    /\ Len(out) >= Len(created)
    /\ CreatedPart = created
    /\ Len(KeptPart) + Count(drop, TRUE) = Len(input)
    /\ SeqBag(KeptPart) (+) SeqBag(Dropped(signals, drop)) = SeqBag(input)
    /\ (input = <<>> => out = <<>> /\ errs = <<>>)

\* A returned call that dropped a record, kept another and created a row.
C1_Witness ==
  /\ Returned
  /\ Count(drop, TRUE) >= 1
  /\ Len(KeptPart) >= 1
  /\ Len(created) >= 1

\* ---------------------------------------------------------------- claim C2
IndicesOf(s, name) == {k \in DOMAIN s : s[k].Name = name}
TheOne(S) == CHOOSE x \in S : TRUE
Abs(x) == IF x < 0 THEN -x ELSE x

\* The batch holds exactly one latitude, exactly one longitude and no HDOP
\* record, nothing in it is future-dated, the pair is not (0, 0), and the two
\* timestamps are at most `gap` apart.
LonePairWithin(gap) ==
  /\ Cardinality(IndicesOf(input, fieldLatitude)) = 1
  /\ Cardinality(IndicesOf(input, fieldLongitude)) = 1
  /\ IndicesOf(input, fieldHDOP) = {}
  /\ \A k \in DOMAIN input : ~IsFuture(input[k])
  /\ LET lat == input[TheOne(IndicesOf(input, fieldLatitude))]
         lon == input[TheOne(IndicesOf(input, fieldLongitude))]
     IN /\ ~(lat.ValueNumber = 0 /\ lon.ValueNumber = 0)
        /\ Abs(lat.Timestamp - lon.Timestamp) <= gap

LonePairMerged ==
  LET lat == input[TheOne(IndicesOf(input, fieldLatitude))]
      lon == input[TheOne(IndicesOf(input, fieldLongitude))]
  IN /\ Len(created) = 1
     /\ created[1].ValueLocation.Latitude = lat.ValueNumber
     /\ created[1].ValueLocation.Longitude = lon.ValueNumber
     /\ \E k \in DOMAIN KeptPart : KeptPart[k] = lat
     /\ \E k \in DOMAIN KeptPart : KeptPart[k] = lon
     /\ errs = <<>>

\* C2: a lone latitude/longitude pair that is not future-dated, not (0, 0) and
\* whose timestamps differ by at most the gap tolerance yields exactly one
\* created row with the two values, both records are retained and the error
\* is nil.
C2_PairWithinToleranceMerged ==
  Returned /\ LonePairWithin(allowedLocationGap) => LonePairMerged

\* ------------------------------------------------------------ flush steps
\* The record at position k names a slot that is already filled.
Collides(p, k) ==
  /\ lastReference(p.signals[k].Name) # ""
  /\ p[lastReference(p.signals[k].Name)] # NoIndex

\* The step taken from this state runs tryCreateLocationSignal.
FlushNow ==
  \/ pc = "gap" /\ GapFlushes(Pass, i)
  \/ /\ pc = "guard"
     /\ ~IsFuture(signals[i])
     /\ ~IsDuplicate(Pass, i)
     /\ Collides(Pass, i)
  \/ pc = "final"

BothFilled == lastLat # NoIndex /\ lastLon # NoIndex
OriginPair ==
  /\ BothFilled
  /\ signals[lastLat].ValueNumber = 0
  /\ signals[lastLon].ValueNumber = 0

Last(s) == s[Len(s)]

\* ---------------------------------------------------------------- claim C3
\* C3: a flush that finds latitude and longitude slots filled with 0 and 0
\* marks both records dropped, records exactly one error mentioning the
\* origin, creates no row from the pair (a row appears only for a filled HDOP
\* slot, with latitude and longitude left zero) and marks no other record.
C3_FlushOfOrigin ==
  (FlushNow /\ OriginPair) =>
    /\ drop'[lastLat] /\ drop'[lastLon]
    /\ \A k \in DOMAIN drop : k \notin {lastLat, lastLon} => drop'[k] = drop[k]
    /\ Len(errs') = Len(errs) + 1
    /\ SubSeq(errs', 1, Len(errs)) = errs
    /\ Last(errs').msg = "latitude and longitude at origin"
    /\ IF lastHDOP = NoIndex
         THEN created' = created
         ELSE /\ Len(created') = Len(created) + 1
              /\ SubSeq(created', 1, Len(created)) = created
              /\ Last(contrib').lat = NoIndex /\ Last(contrib').lon = NoIndex
              /\ Last(created').ValueLocation.Latitude = 0
              /\ Last(created').ValueLocation.Longitude = 0

C3_OriginPairDropped == [][C3_FlushOfOrigin]_vars

\* A returned call in which an origin pair was flushed and another record of
\* the batch was kept.
C3_Witness ==
  /\ Returned
  /\ Count(why, "origin") = 2
  /\ \E e \in DOMAIN errs : errs[e].msg = "latitude and longitude at origin"
  /\ Len(KeptPart) >= 1

\* ---------------------------------------------------------------- claim C4
\* Record k of the sorted slice passed both guards.
PassedGuards(k) == ~IsFuture(signals[k]) /\ ~IsDuplicate(Pass, k)

\* No record named `other` lies within the gap tolerance of record k.
NoPartner(k, other) ==
  \A j \in DOMAIN signals :
    signals[j].Name = other =>
      Abs(signals[j].Timestamp - signals[k].Timestamp) > allowedLocationGap

InSomeRow(k) ==
  \E c \in DOMAIN contrib : k \in {contrib[c].lat, contrib[c].lon}

MsgCount(m) == Cardinality({e \in DOMAIN errs : errs[e].msg = m})

LoneCoordinateDropped(name, other, m) ==
  /\ \A k \in DOMAIN signals :
       (signals[k].Name = name /\ PassedGuards(k) /\ NoPartner(k, other)) =>
         drop[k] /\ why[k] = "unpaired" /\ ~InSomeRow(k)
  /\ MsgCount(m) =
       Cardinality({k \in DOMAIN signals : signals[k].Name = name /\ why[k] = "unpaired"})

\* C4: a latitude that passed the guards and has no longitude within the gap
\* tolerance is dropped, is in no created row, and has exactly one "unpaired
\* latitude" error; the same for a longitude without a latitude.
C4_LoneCoordinateDropped ==
  Returned /\ input # <<>> =>
    /\ LoneCoordinateDropped(fieldLatitude, fieldLongitude, "unpaired latitude")
    /\ LoneCoordinateDropped(fieldLongitude, fieldLatitude, "unpaired longitude")

\* ---------------------------------------------------------------- claim C5
\* Positions of the sorted slice holding a record with this name and timestamp.
Group(name, ts) ==
  {k \in DOMAIN signals : signals[k].Name = name /\ signals[k].Timestamp = ts}

NonFutureTimes == {t \in Times : t <= now + futureAllowance}

\* C5 as claimed: of k >= 2 non-future records with one name and timestamp,
\* k-1 are dropped by the duplicate guard and exactly one is retained,
\* whatever the name.
C5_DuplicatesCollapseToOne ==
  Returned /\ input # <<>> =>
    \A name \in Names, ts \in NonFutureTimes :
      LET g == Group(name, ts)
      IN Cardinality(g) >= 2 =>
           /\ Cardinality({k \in g : why[k] = "duplicate"}) = Cardinality(g) - 1
           /\ Cardinality({k \in g : ~drop[k]}) = 1

\* C5 as amended: k-1 of them are dropped by the duplicate guard, no error is
\* recorded for those drops, and the remaining one is retained unless it is a
\* latitude or longitude that a flush drops as unpaired or at the origin.
C5_DuplicatesCollapse ==
  LoopStarted =>
    /\ Len(errs) = Count(why, "future") + Count(why, "unpaired")
                     + (Count(why, "origin") \div 2)
    /\ Returned =>
         \A name \in Names, ts \in NonFutureTimes :
           LET g == Group(name, ts)
           IN Cardinality(g) >= 2 =>
                /\ Cardinality({k \in g : why[k] = "duplicate"}) = Cardinality(g) - 1
                /\ \E k \in g :
                     /\ why[k] \in {"", "unpaired", "origin"}
                     /\ why[k] # "" => name \in {fieldLatitude, fieldLongitude}
                     /\ drop[k] <=> why[k] # ""
                     /\ \A j \in g \ {k} : drop[j]

\* A returned call with three records of one name and timestamp: two dropped
\* by the duplicate guard, one retained.
C5_Witness ==
  /\ Returned
  /\ \E name \in Names, ts \in NonFutureTimes :
       /\ Cardinality(Group(name, ts)) = 3
       /\ Cardinality({k \in Group(name, ts) : why[k] = "duplicate"}) = 2
       /\ Cardinality({k \in Group(name, ts) : ~drop[k]}) = 1

\* ---------------------------------------------------------------- claim C6
\* Record k of the sorted slice has been through the loop body.
Processed(k) == k < i

SlotsInUse == {lastLat, lastLon, lastHDOP} \ {NoIndex}
RowSources == UNION {{contrib[c].lat, contrib[c].lon, contrib[c].hdop} : c \in DOMAIN contrib}
                \ {NoIndex}

\* C6: every record later than now + futureAllowance is dropped by the future
\* guard with one error each; after the first such drop every later record of
\* the sorted slice is dropped by the same guard; no such record is ever in a
\* slot or behind a created row.
C6_FutureRecordsDropped ==
  LoopStarted =>
    /\ \A k \in DOMAIN signals :
         (Processed(k) /\ IsFuture(signals[k])) => drop[k] /\ why[k] = "future"
    /\ \A k, j \in DOMAIN signals :
         (k < j /\ Processed(j) /\ why[k] = "future") => why[j] = "future"
    /\ MsgCount("future timestamp") = Count(why, "future")
    /\ \A k \in SlotsInUse \cup RowSources : ~IsFuture(signals[k])

\* A call in which a future-dated latitude was dropped after an earlier record
\* was kept, and a second future-dated record followed it.
C6_Witness ==
  /\ Returned
  /\ Count(why, "future") >= 2
  /\ \E k \in DOMAIN signals : why[k] = "future" /\ signals[k].Name = fieldLatitude
  /\ \E k \in DOMAIN signals : ~drop[k]

\* ---------------------------------------------------------------- claim C7
IsPrefix(s, t) == Len(s) <= Len(t) /\ SubSeq(t, 1, Len(s)) = s

Anomalies == {"future", "unpaired", "origin"}

\* Positions whose mark is set by the step being taken, for an anomaly.
NewlyMarked == {k \in DOMAIN why : k \in DOMAIN why' /\ why[k] = "" /\ why'[k] \in Anomalies}

C7_ErrorsMatchAnomalies ==
  LoopStarted =>
    /\ MsgCount("future timestamp") = Count(why, "future")
    /\ MsgCount("unpaired latitude") + MsgCount("unpaired longitude") = Count(why, "unpaired")
    /\ 2 * MsgCount("latitude and longitude at origin") = Count(why, "origin")
    /\ Len(errs) = MsgCount("future timestamp") + MsgCount("unpaired latitude")
                     + MsgCount("unpaired longitude")
                     + MsgCount("latitude and longitude at origin")
    /\ (errs = <<>>) <=> (\A k \in DOMAIN why : why[k] \notin Anomalies)
    /\ Returned => Len(out) = Len(input) - Count(drop, TRUE) + Len(created)

C7_ErrorsInOrder ==
  (pc # "start") =>
    /\ IsPrefix(errs, errs')
    /\ Len(errs') <= Len(errs) + 1
    /\ (Len(errs') = Len(errs) + 1) <=> (NewlyMarked # {})
    /\ NewlyMarked # {} =>
         \A k \in NewlyMarked :
           Last(errs').msg =
             CASE why'[k] = "future" -> "future timestamp"
               [] why'[k] = "origin" -> "latitude and longitude at origin"
               [] signals[k].Name = fieldLatitude -> "unpaired latitude"
               [] OTHER -> "unpaired longitude"

\* C7: the returned error is nil exactly when no origin, unpaired or future
\* anomaly occurred; otherwise it holds one message per anomaly (none for
\* duplicates), appended in the order the anomalies occur in the pass; and
\* the output is complete whether or not there are messages.
C7_DiagnosticsPerAnomaly == []C7_ErrorsMatchAnomalies /\ [][C7_ErrorsInOrder]_vars

\* A returned call with an unpaired and a future anomaly and a non-empty output.
C7_Witness ==
  /\ Returned
  /\ Len(errs) = 2
  /\ Count(why, "future") = 1
  /\ Count(why, "unpaired") = 1
  /\ out # <<>>

\* ---------------------------------------------------------------- claim C8
NoSlot(k) == signals[k].Name \notin {fieldLatitude, fieldLongitude, fieldHDOP}

C8_Retained ==
  Returned /\ input # <<>> =>
    \A k \in DOMAIN signals :
      (NoSlot(k) /\ PassedGuards(k)) =>
        /\ ~drop[k]
        /\ \E j \in DOMAIN KeptPart : KeptPart[j] = signals[k]
        /\ \E j \in DOMAIN input : input[j] = signals[k]

C8_DispatchIsNoOp ==
  (pc = "guard" /\ NoSlot(i) /\ PassedGuards(i)) =>
    UNCHANGED <<signals, lastLat, lastLon, lastHDOP, lastTime, errs, drop, created>>

\* C8: a record that belongs to no slot and passes both guards is retained
\* unchanged, its guard and dispatch steps record no error, and its dispatch
\* leaves the three slots and lastTime as they were.
C8_OtherSignalsUntouched == []C8_Retained /\ [][C8_DispatchIsNoOp]_vars

\* A returned call in which such a record was processed between the latitude
\* and the longitude of one created row.
C8_Witness ==
  /\ Returned
  /\ \E a, b, c \in DOMAIN signals :
       /\ a < b /\ b < c
       /\ NoSlot(b) /\ ~drop[b]
       /\ \E r \in DOMAIN contrib : contrib[r].lat = a /\ contrib[r].lon = c

\* ---------------------------------------------------------------- claim C9
\* The whole loop body for record k, and the loop with the final flush.
Iteration(p, k) ==
  LET g == GapCheck(p, k)
  IN IF IsFuture(g.signals[k]) THEN DropFuture(g, k)
     ELSE IF IsDuplicate(g, k) THEN DropDuplicate(g, k)
     ELSE Dispatch(g, k)

RECURSIVE Loop(_, _)
Loop(p, k) ==
  IF k > Len(p.signals) THEN tryCreateLocationSignal(p) ELSE Loop(Iteration(p, k), k + 1)

\* What ProcessSignals can return for a batch.
Results(batch) ==
  IF batch = <<>> THEN {[out |-> <<>>, errs |-> <<>>]}
  ELSE {LET p == Loop(NewPass(sorted, batch[1]), 1)
        IN [out |-> Assembled(p), errs |-> p.errs] : sorted \in SortOutcomes(batch)}

Perms(s) ==
  {[k \in 1..Len(s) |-> s[q[k]]] :
     q \in {f \in [1..Len(s) -> 1..Len(s)] : \A j, k \in 1..Len(s) : f[j] = f[k] => j = k}}

SingleEntity(s) ==
  \A j, k \in DOMAIN s :
    /\ s[j].TokenID = s[k].TokenID /\ s[j].Source = s[k].Source
    /\ s[j].Producer = s[k].Producer /\ s[j].CloudEventID = s[k].CloudEventID

\* Records with the same name and timestamp are the same record.
SameKeySameRecord(s) ==
  \A j, k \in DOMAIN s :
    (s[j].Name = s[k].Name /\ s[j].Timestamp = s[k].Timestamp) => s[j] = s[k]

SameForEveryOrder ==
  \A q \in Perms(input) : \A r \in Results(q) :
    /\ SeqBag(r.out) = SeqBag(out)
    /\ r.errs = errs

\* C9 as claimed: for a single-entity batch every order of the records gives
\* the same retained records, created rows and errors.
C9_OrderIndependent ==
  (Returned /\ SingleEntity(input)) => SameForEveryOrder

\* C9 as amended: the same, for batches in which records that share name and
\* timestamp are identical; the returned slices are then equal as sequences.
SameUpToTies ==
  (Returned /\ SingleEntity(input) /\ SameKeySameRecord(input)) =>
    \A q \in Perms(input) : \A r \in Results(q) : r.out = out /\ r.errs = errs

C9_OrderIndependentUpToTies == []SameUpToTies

\* A returned call on three distinct records that were not passed in sorted
\* order, among them a pair that was merged.
C9_Witness ==
  /\ Returned
  /\ Len(input) = MaxLen
  /\ SingleEntity(input) /\ SameKeySameRecord(input)
  /\ input # signals
  /\ Cardinality(Perms(input)) > 2
  /\ created # <<>>
  /\ errs # <<>>

\* --------------------------------------------------------------- claim C10
\* C10: every created row is named currentLocationCoordinates and carries
\* TokenID, Source, Producer and CloudEventID of the first record of the
\* batch as the caller passed it.
C10_RowsCarryTemplate ==
  LoopStarted =>
    \A c \in DOMAIN created :
      /\ created[c].Name = fieldCoordinates
      /\ created[c].TokenID = input[1].TokenID
      /\ created[c].Source = input[1].Source
      /\ created[c].Producer = input[1].Producer
      /\ created[c].CloudEventID = input[1].CloudEventID

\* A returned call with a created row whose slots were filled by records that
\* carry other payload fields than the caller's first record, which the sort
\* moved away from the front.
C10_Witness ==
  /\ Returned
  /\ created # <<>>
  /\ signals[1].TokenID # input[1].TokenID
  /\ \E k \in RowSources : signals[k].TokenID # input[1].TokenID
  /\ Last(out).TokenID = input[1].TokenID

\* --------------------------------------------------------------- claim C11
NonDecreasing(rows) ==
  \A c \in 1..(Len(rows) - 1) : rows[c].Timestamp <= rows[c + 1].Timestamp

C11_ReturnedOrder ==
  Returned /\ input # <<>> =>
    /\ Len(out) = Len(input) - Count(drop, TRUE) + Len(created)
    /\ CreatedPart = created
    /\ KeptPart = Retained(signals, drop)
    /\ IsSorted(KeptPart)
    /\ \A k \in DOMAIN KeptPart :
         /\ KeptPart[k].Name # fieldCoordinates
         /\ \E j \in DOMAIN input : input[j] = KeptPart[k]
    /\ \A c \in DOMAIN CreatedPart : CreatedPart[c].Name = fieldCoordinates
    /\ NonDecreasing(CreatedPart)

C11_RowsAppendedPerFlush ==
  (pc # "start") =>
    /\ IsPrefix(created, created')
    /\ Len(created') <= Len(created) + 1
    /\ Len(created') = Len(created) + 1 => FlushNow

\* C11: the returned slice is the retained records in ascending (timestamp,
\* name) order followed by every created row; the rows are appended one per
\* flush, in the order of the flushes, and their timestamps never decrease.
C11_OutputOrder == []C11_ReturnedOrder /\ [][C11_RowsAppendedPerFlush]_vars

\* A returned call on a batch that was not passed in sorted order, with two
\* retained records and two created rows of different timestamps.
C11_Witness ==
  /\ Returned
  /\ input # signals
  /\ Len(KeptPart) >= 2
  /\ Len(created) = 2
  /\ created[1].Timestamp < created[2].Timestamp

\* --------------------------------------------------------------- claim C12
Min(S) == CHOOSE x \in S : \A y \in S : x <= y

\* The record that filled the first slot of the triple in progress: the loop
\* fills the slots in the order of the slice, so it is the one at the least
\* position among the slots in use.
FirstFilled == signals[Min(SlotsInUse)]

C12_SetWhileInProgress ==
  LoopStarted =>
    /\ (lastTime # zeroTime) <=> (SlotsInUse # {})
    /\ SlotsInUse # {} => lastTime = FirstFilled.Timestamp

C12_ClearedByFlushOnly ==
  (pc # "start") =>
    /\ (SlotsInUse # {} /\ ~FlushNow) => lastTime' = lastTime
    /\ (FlushNow /\ pc # "guard") => lastTime' = zeroTime /\ SlotsInUse' = {}
    /\ (FlushNow /\ pc = "guard") => lastTime' = signals[i].Timestamp /\ SlotsInUse' = {i}

\* C12: lastTime is set exactly while one of the three slots is filled, it is
\* then the timestamp of the record that filled the first slot of the triple,
\* it does not change until a flush runs, and every flush clears it (after a
\* flush for a slot collision it is set again for the new triple).
C12_RepresentativeTimestamp ==
  []C12_SetWhileInProgress /\ [][C12_ClearedByFlushOnly]_vars

\* --------------------------------------------------------------- claim C13
\* The step being taken ran the flush of a triple whose timestamp was set.
FlushedInProgress == lastTime # zeroTime /\ SlotsInUse # {} /\ SlotsInUse' = {}

C13_GapStep ==
  (pc = "gap") =>
    (FlushedInProgress <=>
       (lastTime # zeroTime /\ signals[i].Timestamp - lastTime > allowedLocationGap))

\* C13: the gap check flushes exactly when a triple is in progress and the
\* record's timestamp is more than allowedLocationGap after lastTime; a record
\* exactly allowedLocationGap after lastTime forces no flush.
C13_GapIsStrict == [][C13_GapStep]_vars

\* --------------------------------------------------------------- claim C14
DroppedByGuard(k) == IsFuture(signals[k]) \/ IsDuplicate(Pass, k)

C14_GuardedRecordStep ==
  (pc \in {"gap", "guard"} /\ DroppedByGuard(i)) =>
    /\ UNCHANGED <<lastLat, lastLon, lastHDOP, lastTime, created>>
    /\ \A e \in DOMAIN errs' :
         e > Len(errs) => errs'[e].msg = "future timestamp"
    /\ \A k \in DOMAIN drop : k # i => drop'[k] = drop[k]

\* C14: the handling of a record that the future guard or the duplicate guard
\* drops forces no flush, records no flush error, and leaves the three slots,
\* lastTime and the created rows unchanged.
C14_GuardsBeforeGapCheck == [][C14_GuardedRecordStep]_vars

\* --------------------------------------------------------------- claim C15
\* The slot variable of a signal name, now and after the step.
SlotOf(name) ==
  CASE name = fieldLatitude -> lastLat
    [] name = fieldLongitude -> lastLon
    [] name = fieldHDOP -> lastHDOP

SlotOfNext(name) ==
  CASE name = fieldLatitude -> lastLat'
    [] name = fieldLongitude -> lastLon'
    [] name = fieldHDOP -> lastHDOP'

SlotNames == {fieldLatitude, fieldLongitude, fieldHDOP}

\* Record k was accounted for by the flush of the step being taken: it was
\* marked dropped by it or it stands behind the row the step appended.
FlushedByStep(k) ==
  \/ ~drop[k] /\ drop'[k] /\ why'[k] \in {"unpaired", "origin"}
  \/ /\ Len(contrib') = Len(contrib) + 1
     /\ k \in {Last(contrib').lat, Last(contrib').lon, Last(contrib').hdop}

C15_DispatchStep ==
  (pc = "guard" /\ PassedGuards(i) /\ ~NoSlot(i)) =>
    IF Collides(Pass, i)
      THEN /\ \A k \in SlotsInUse : FlushedByStep(k)
           /\ SlotsInUse' = {i}
           /\ SlotOfNext(signals[i].Name) = i
           /\ lastTime' = signals[i].Timestamp
      ELSE /\ SlotOfNext(signals[i].Name) = i
           /\ \A n \in SlotNames \ {signals[i].Name} : SlotOfNext(n) = SlotOf(n)
           /\ UNCHANGED <<created, drop, errs>>

C15_SlotKeptUntilFlush ==
  (pc # "start") =>
    \A n \in SlotNames :
      (SlotOf(n) # NoIndex /\ SlotOfNext(n) # SlotOf(n)) =>
        FlushNow /\ FlushedByStep(SlotOf(n))

\* The one triple in progress: each filled slot holds a record of its own
\* name that passed the guards, was processed, is not marked dropped and
\* stands behind no created row.
C15_OneTripleInProgress ==
  LoopStarted =>
    /\ \A n \in SlotNames :
         SlotOf(n) # NoIndex =>
           /\ signals[SlotOf(n)].Name = n
           /\ Processed(SlotOf(n)) /\ PassedGuards(SlotOf(n))
           /\ ~drop[SlotOf(n)]
    /\ SlotsInUse \cap RowSources = {}

\* C15: a filled slot is never overwritten: a latitude, longitude or HDOP
\* record that passed the guards and finds its slot filled first flushes the
\* triple in progress, then fills the emptied slot as the first member of a
\* new triple whose lastTime is its own timestamp; a slot changes only by
\* being filled while empty or by a flush; one triple is in progress at most.
C15_NoOverwrite ==
  /\ []C15_OneTripleInProgress
  /\ [][C15_DispatchStep]_vars
  /\ [][C15_SlotKeptUntilFlush]_vars

\* The state right after a dispatch that found its slot filled by a record
\* less than the gap tolerance earlier: the earlier record stands behind a
\* created row and the later one alone is in progress.
C15_Witness ==
  /\ pc \in {"gap", "final"}
  /\ i > 2
  /\ SlotsInUse = {i - 1}
  /\ lastTime = signals[i - 1].Timestamp
  /\ \E j \in 1..(i - 2) :
       /\ signals[j].Name = signals[i - 1].Name
       /\ signals[i - 1].Timestamp - signals[j].Timestamp < allowedLocationGap
       /\ signals[j].Timestamp # zeroTime
       /\ j \in RowSources

\* --------------------------------------------------------------- claim C16
ValidPair == BothFilled /\ ~OriginPair

\* The records the policy table has a flush from this state drop.
PolicyDrops ==
  IF BothFilled THEN (IF OriginPair THEN {lastLat, lastLon} ELSE {})
  ELSE {lastLat, lastLon} \ {NoIndex}

PolicyCreates == ValidPair \/ lastHDOP # NoIndex

PolicyLocation ==
  [Latitude |-> IF ValidPair THEN signals[lastLat].ValueNumber ELSE 0,
   Longitude |-> IF ValidPair THEN signals[lastLon].ValueNumber ELSE 0,
   HDOP |-> IF lastHDOP # NoIndex THEN signals[lastHDOP].ValueNumber ELSE 0]

C16_FlushStep ==
  FlushNow =>
    /\ IsPrefix(created, created')
    /\ Len(created') = Len(created) + (IF PolicyCreates THEN 1 ELSE 0)
    /\ PolicyCreates =>
         /\ Last(created').ValueLocation = PolicyLocation
         /\ Last(created').Timestamp = lastTime
         /\ Last(created').Name = fieldCoordinates
    /\ \A k \in DOMAIN drop : drop'[k] <=> (drop[k] \/ k \in PolicyDrops)
    /\ \A k \in PolicyDrops : signals[k].Name # fieldHDOP
    /\ lastHDOP # NoIndex => ~drop'[lastHDOP]
    /\ IsPrefix(errs, errs')
    /\ Len(errs') = Len(errs) + (IF PolicyDrops = {} THEN 0 ELSE 1)
    /\ IF pc = "guard" THEN SlotsInUse' = {i} /\ lastTime' = signals[i].Timestamp
       ELSE SlotsInUse' = {} /\ lastTime' = zeroTime
    /\ SlotsInUse = {} =>
         UNCHANGED <<created, drop, errs, lastLat, lastLon, lastHDOP, lastTime, signals>>

\* C16: every flush follows the policy table: one row is appended exactly when
\* the pair is filled and not (0, 0) or the HDOP slot is filled, with the
\* pair's values (else zeros) and the HDOP value (else zero); exactly the
\* unpaired or origin coordinates are marked dropped, an HDOP record never;
\* the slots and lastTime are left empty (after a slot collision the
\* colliding record then starts the new triple); with all slots empty the
\* flush changes nothing.
C16_FlushPolicy == [][C16_FlushStep]_vars

\* A returned call in which one flush appended an HDOP-only row, another
\* dropped an unpaired coordinate, and the row's triple ended more than the
\* gap tolerance before the last record.
C16_Witness ==
  /\ Returned
  /\ Len(created) = 1
  /\ contrib[1].hdop # NoIndex /\ contrib[1].lat = NoIndex
  /\ Count(why, "unpaired") = 1
  /\ created[1].Timestamp < signals[Len(signals)].Timestamp - allowedLocationGap

\* --------------------------------------------------------------- claim C17
C17_OriginWithHDOPStep ==
  (FlushNow /\ OriginPair /\ lastHDOP # NoIndex) =>
    /\ drop'[lastLat] /\ drop'[lastLon] /\ ~drop'[lastHDOP]
    /\ why'[lastLat] = "origin" /\ why'[lastLon] = "origin"
    /\ Len(errs') = Len(errs) + 1
    /\ Last(errs') = ErrOrigin(lastTime)
    /\ Len(created') = Len(created) + 1
    /\ Last(created').ValueLocation =
         [Latitude |-> 0, Longitude |-> 0, HDOP |-> signals[lastHDOP].ValueNumber]

C17_HDOPRetained ==
  Returned /\ input # <<>> =>
    \A c \in DOMAIN contrib :
      contrib[c].hdop # NoIndex =>
        /\ ~drop[contrib[c].hdop]
        /\ \E k \in DOMAIN KeptPart : KeptPart[k] = signals[contrib[c].hdop]

\* C17: a flush that finds the pair at (0, 0) and the HDOP slot filled drops
\* both coordinates with one origin error and appends exactly one row, which
\* carries the HDOP value and zero latitude and longitude; the HDOP record is
\* retained in the returned slice.
C17_OriginPairWithHDOP == [][C17_OriginWithHDOPStep]_vars /\ []C17_HDOPRetained

\* A returned call on latitude 0, longitude 0 and an HDOP record of one
\* triple: both coordinates dropped, one error, one row with HDOP only.
C17_Witness ==
  /\ Returned
  /\ Count(why, "origin") = 2
  /\ Len(errs) = 1
  /\ Len(created) = 1
  /\ created[1].ValueLocation.Latitude = 0 /\ created[1].ValueLocation.Longitude = 0
  /\ created[1].ValueLocation.HDOP # 0
  /\ Len(KeptPart) = 1 /\ KeptPart[1].Name = fieldHDOP

\* --------------------------------------------------------------- claim C18
\* Record k reached line 170 and filled its slot.
FilledSlot(k) == Processed(k) /\ PassedGuards(k) /\ ~NoSlot(k)

\* The created rows record k stands behind.
RowsOf(k) ==
  {c \in DOMAIN contrib : k \in {contrib[c].lat, contrib[c].lon, contrib[c].hdop}}

\* Record k gave its value to row c, in the field of its name.
GaveValue(k, c) ==
  CASE signals[k].Name = fieldLatitude ->
         contrib[c].lat = k /\ created[c].ValueLocation.Latitude = signals[k].ValueNumber
    [] signals[k].Name = fieldLongitude ->
         contrib[c].lon = k /\ created[c].ValueLocation.Longitude = signals[k].ValueNumber
    [] signals[k].Name = fieldHDOP ->
         contrib[c].hdop = k /\ created[c].ValueLocation.HDOP = signals[k].ValueNumber

Pending(k) == k \in SlotsInUse /\ ~drop[k] /\ RowsOf(k) = {}
Merged(k) ==
  /\ k \notin SlotsInUse /\ ~drop[k]
  /\ Cardinality(RowsOf(k)) = 1
  /\ \A c \in RowsOf(k) : GaveValue(k, c)
DroppedByFlush(k) ==
  /\ k \notin SlotsInUse /\ drop[k] /\ RowsOf(k) = {}
  /\ why[k] \in {"unpaired", "origin"}
  /\ signals[k].Name \in {fieldLatitude, fieldLongitude}

C18_Accounting ==
  LoopStarted =>
    /\ \A k \in DOMAIN signals :
         IF FilledSlot(k)
           THEN (Pending(k) \/ Merged(k) \/ DroppedByFlush(k))
           ELSE k \notin SlotsInUse /\ RowsOf(k) = {}
    /\ MsgCount("unpaired latitude") =
         Cardinality({k \in DOMAIN signals :
                        why[k] = "unpaired" /\ signals[k].Name = fieldLatitude})
    /\ MsgCount("unpaired longitude") =
         Cardinality({k \in DOMAIN signals :
                        why[k] = "unpaired" /\ signals[k].Name = fieldLongitude})
    /\ 2 * MsgCount("latitude and longitude at origin") = Count(why, "origin")
    /\ Len(contrib) = Len(created)
    /\ \A c \in DOMAIN created :
         /\ contrib[c].lat = NoIndex => created[c].ValueLocation.Latitude = 0
         /\ contrib[c].lon = NoIndex => created[c].ValueLocation.Longitude = 0
         /\ contrib[c].hdop = NoIndex => created[c].ValueLocation.HDOP = 0
    /\ (pc \in {"assemble", "done"}) => SlotsInUse = {}
    /\ Returned =>
         \A k \in RowSources : \E j \in DOMAIN KeptPart : KeptPart[j] = signals[k]

\* A record leaves its slot in one step only, the flush that accounts for it.
C18_ConsumedOnce ==
  (pc # "start") =>
    \A k \in DOMAIN signals :
      /\ (k \in SlotsInUse /\ k \notin SlotsInUse') => FlushNow /\ FlushedByStep(k)
      /\ k \notin SlotsInUse => ~FlushedByStep(k)

\* C18: every record that filled a slot is accounted for exactly once: it is
\* still in its slot, or it stands behind exactly one created row with its
\* value and is retained, or (a latitude or longitude only) it is marked
\* dropped with an error; no record is in a slot when the function returns,
\* and every value of a created row comes from a retained record.
C18_ExactlyOnce == []C18_Accounting /\ [][C18_ConsumedOnce]_vars

\* A returned call in which one latitude was dropped as unpaired and a later
\* latitude and longitude were merged into one row and retained.
C18_Witness ==
  /\ Returned
  /\ \E a, b, c \in DOMAIN signals :
       /\ signals[a].Name = fieldLatitude /\ why[a] = "unpaired"
       /\ signals[b].Name = fieldLatitude /\ signals[c].Name = fieldLongitude
       /\ contrib = <<[lat |-> b, lon |-> c, hdop |-> NoIndex]>>
       /\ ~drop[b] /\ ~drop[c]
  /\ Len(errs) = 1
  /\ SlotsInUse = {}

\* --------------------------------------------------------------- claim C19
Max(S) == CHOOSE x \in S : \A y \in S : y <= x

\* Timestamps of the members of the triple in progress.
MemberTimes == {signals[k].Timestamp : k \in SlotsInUse}

C19_RowOfFlush ==
  (FlushNow /\ Len(created') = Len(created) + 1) =>
    /\ Max(MemberTimes) - Min(MemberTimes) <= allowedLocationGap
    /\ Last(created').Timestamp = Min(MemberTimes)

\* C19: the records of the triple behind a created row have timestamps no
\* further apart than allowedLocationGap, and the row's timestamp is the
\* earliest of them.
C19_SpreadWithinTolerance == [][C19_RowOfFlush]_vars

\* --------------------------------------------------------------- claim C20
StoreReturned == storePc = "done"

\* The record ProcessAll hands to Process in the step being taken.
StoreSig == store.Signals[storeI]

StoreIsDuplicate(k) ==
  /\ k > 1
  /\ store.Signals[k].Timestamp = store.Signals[k - 1].Timestamp
  /\ store.Signals[k].Name = store.Signals[k - 1].Name

\* The record of this step names a filled cell and is within the gap
\* tolerance of the triple in progress, without being an exact duplicate.
StoreCollidesWithinGap ==
  /\ storePc = "loop"
  /\ GetActiveIndex(StoreSig.Name) # ""
  /\ Filled(store[GetActiveIndex(StoreSig.Name)])
  /\ HasAnyActive(store)
  /\ StoreSig.Timestamp >= store.InFlightTimestamp
  /\ StoreSig.Timestamp - store.InFlightTimestamp <= maxLocationTimestampGap
  /\ ~StoreIsDuplicate(storeI)

StoreFlushable ==
  \/ Filled(store.ActiveLat) /\ Filled(store.ActiveLon)
  \/ Filled(store.ActiveHDOP)

C20_CollisionStep ==
  StoreCollidesWithinGap =>
    /\ ~store'.SignalsToDelete[storeI]
    /\ Get(store'[GetActiveIndex(StoreSig.Name)]) = storeI
    /\ \A n \in {"ActiveLat", "ActiveLon", "ActiveHDOP"} \ {GetActiveIndex(StoreSig.Name)} :
         ~Filled(store'[n])
    /\ store'.InFlightTimestamp = StoreSig.Timestamp
    /\ Len(store'.AddedSignals) =
         Len(store.AddedSignals) + (IF StoreFlushable THEN 1 ELSE 0)

TimeOrdered(sigs) ==
  \A k \in 1..(Len(sigs) - 1) : sigs[k].Timestamp <= sigs[k + 1].Timestamp

C20_AllRetained ==
  (/\ StoreReturned
   /\ store.Signals # <<>>
   /\ TimeOrdered(store.Signals)
   /\ \A k \in DOMAIN store.Signals : ~StoreIsDuplicate(k)
   /\ \A k \in DOMAIN store.Signals : store.why[k] # "unpaired") =>
    /\ \A k \in DOMAIN store.Signals : ~store.SignalsToDelete[k]
    /\ IsPrefix(store.Signals, storeOut)

\* C20: in Store.ProcessAll a latitude, longitude or HDOP record that arrives
\* within the gap tolerance while its cell is filled is not dropped: the
\* triple in progress is flushed (a row is added if it can be) and the record
\* starts a new triple; on a time-ordered slice without exact duplicates and
\* without unpaired coordinates every record is retained.
C20_RestartOnCollision == []C20_AllRetained /\ [][C20_CollisionStep]_vars

\* --------------------------------------------------------------- claim C21
\* Positions of the Store's slice holding a record with this name and timestamp.
StoreGroup(name, ts) ==
  {k \in DOMAIN store.Signals :
     store.Signals[k].Name = name /\ store.Signals[k].Timestamp = ts}

StoreKept == {k \in DOMAIN store.Signals : ~store.SignalsToDelete[k]}

\* C21 as claimed: of the records that share a name and a timestamp exactly
\* one is retained by Store.ProcessAll, the first of them in the input.
C21_FirstOfKeyRetained ==
  (StoreReturned /\ store.Signals # <<>>) =>
    \A name \in Names, ts \in Times :
      LET g == StoreGroup(name, ts)
      IN Cardinality(g) >= 2 => (g \cap StoreKept) = {Min(g)}

\* C21 as amended: a record that directly follows a record of the same name
\* and timestamp is removed, whatever its value; a record that does not is
\* retained when it belongs to no cell, and is otherwise removed only as an
\* unpaired coordinate or for arriving while its cell is filled; the
\* returned slice starts with exactly the records not removed, in input order.
C21_AdjacentDuplicatesRemoved ==
  (StoreReturned /\ store.Signals # <<>>) =>
    /\ \A k \in DOMAIN store.Signals :
         IF StoreIsDuplicate(k)
           THEN store.SignalsToDelete[k]
           ELSE /\ GetActiveIndex(store.Signals[k].Name) = "" => k \in StoreKept
                /\ k \notin StoreKept =>
                     /\ store.why[k] \in {"unpaired", "collision"}
                     /\ store.why[k] = "unpaired" =>
                          store.Signals[k].Name \in {fieldLatitude, fieldLongitude}
    /\ storeOut =
         Retained(store.Signals, store.SignalsToDelete) \o store.AddedSignals
    /\ Len(storeOut) = Cardinality(StoreKept) + Len(store.AddedSignals)

\* A returned call on two latitudes of one timestamp with different values
\* and a longitude: the first latitude is retained and merged, the second
\* removed.
C21_Witness ==
  /\ StoreReturned
  /\ \E k \in DOMAIN store.Signals :
       /\ StoreIsDuplicate(k)
       /\ store.Signals[k].ValueNumber # store.Signals[k - 1].ValueNumber
       /\ store.SignalsToDelete[k]
       /\ k - 1 \in StoreKept
  /\ Len(store.AddedSignals) = 1
  /\ Cardinality(StoreKept) = 2

\* --------------------------------------------------------------- claim C22
IsLocationRecord(r) == r.Name \in {fieldLatitude, fieldLongitude, fieldHDOP}
IsCreatedRow(r) == r.Name = fieldCoordinates
IsFlushError(e) ==
  e.msg \in {"latitude and longitude at origin", "unpaired latitude", "unpaired longitude"}

\* What a result says about the location records: the latitude, longitude
\* and HDOP records it retains (hence those it drops), the created rows as
\* to latitude, longitude, HDOP and timestamp, and the origin and unpaired
\* errors.
Footprint(o, e) ==
  LET rows == SelectSeq(o, IsCreatedRow)
  IN [kept |-> SeqBag(SelectSeq(o, IsLocationRecord)),
      rows |-> [c \in DOMAIN rows |->
                  [loc |-> rows[c].ValueLocation, time |-> rows[c].Timestamp]],
      errs |-> SelectSeq(e, IsFlushError)]

\* Batches with the location records of the passed batch that differ from it
\* in the other records only: the batch without them, and the batch with one
\* more of them, at any sample instant.
OtherThanLocationVaried ==
  {SelectSeq(input, IsLocationRecord)}
    \cup {Append(input, Signal(MetaA, ts, fieldSpeed, 55)) : ts \in Times}

SameFootprint ==
  \A b \in OtherThanLocationVaried : \A r \in Results(b) :
    Footprint(r.out, r.errs) = Footprint(out, errs)

\* C22 as claimed: two single-entity batches with the same latitude,
\* longitude and HDOP records that differ only in their other records give
\* the same dropped location records, the same created rows and the same
\* origin and unpaired errors.
C22_OtherSignalsNoInfluence ==
  (Returned /\ SingleEntity(input)) => SameFootprint

\* C22 as amended: the same, for batches in which latitude, longitude or
\* HDOP records that share name and timestamp are identical.
SameFootprintUpToTies ==
  (/\ Returned
   /\ SingleEntity(input)
   /\ SameKeySameRecord(SelectSeq(input, IsLocationRecord))) => SameFootprint

C22_OtherSignalsNoInfluenceUpToTies == []SameFootprintUpToTies

\* A returned call in which the gap check of a record that belongs to no
\* slot flushed a latitude as unpaired, before a later location record.
C22_Witness ==
  /\ Returned
  /\ SingleEntity(input)
  /\ SameKeySameRecord(SelectSeq(input, IsLocationRecord))
  /\ \E a, b, c \in DOMAIN signals :
       /\ a < b /\ b < c
       /\ signals[a].Name = fieldLatitude /\ why[a] = "unpaired"
       /\ NoSlot(b)
       /\ signals[b].Timestamp - signals[a].Timestamp >= allowedLocationGap
       /\ IsLocationRecord(signals[c]) /\ ~IsFuture(signals[c])

\* --------------------------------------------------------------- claim C23
\* The earlier ProcessSignals: no guards, and a record is marked for removal
\* by renaming it.
dropSignalName == "__drop"

\* Its declarations, for an already sorted slice.
OldPass(sorted, tmpl) ==
  [signals |-> sorted, template |-> tmpl, errs |-> <<>>, created |-> <<>>,
   lastLat |-> NoIndex, lastLon |-> NoIndex, lastHDOP |-> NoIndex,
   lastTime |-> zeroTime]

\* Its tryCreateLocationSignal.
OldTryCreateLocationSignal(p) ==
  LET hasLat == p.lastLat # NoIndex
      hasLon == p.lastLon # NoIndex
      hasHDOP == p.lastHDOP # NoIndex
      origin == /\ hasLat /\ hasLon
                /\ p.signals[p.lastLat].ValueNumber = 0
                /\ p.signals[p.lastLon].ValueNumber = 0
      pair == hasLat /\ hasLon /\ ~origin
      create == pair \/ hasHDOP
      loc == [Latitude |-> IF pair THEN p.signals[p.lastLat].ValueNumber ELSE 0,
              Longitude |-> IF pair THEN p.signals[p.lastLon].ValueNumber ELSE 0,
              HDOP |-> IF hasHDOP THEN p.signals[p.lastHDOP].ValueNumber ELSE 0]
      row == [TokenID |-> p.template.TokenID, Timestamp |-> p.lastTime,
              Name |-> fieldCoordinates, ValueNumber |-> 0, ValueLocation |-> loc,
              Source |-> p.template.Source, Producer |-> p.template.Producer,
              CloudEventID |-> p.template.CloudEventID]
      renamed == IF hasLat /\ hasLon
                   THEN (IF origin THEN {p.lastLat, p.lastLon} ELSE {})
                   ELSE IF hasLat THEN {p.lastLat}
                   ELSE IF hasLon THEN {p.lastLon}
                   ELSE {}
      e == IF origin THEN <<ErrOrigin(p.lastTime)>>
           ELSE IF hasLat /\ ~hasLon THEN <<ErrUnpairedLat(p.lastTime)>>
           ELSE IF hasLon /\ ~hasLat THEN <<ErrUnpairedLon(p.lastTime)>>
           ELSE <<>>
  IN [p EXCEPT
        !.signals = [k \in DOMAIN p.signals |->
                       IF k \in renamed
                         THEN [p.signals[k] EXCEPT !.Name = dropSignalName]
                         ELSE p.signals[k]],
        !.errs = p.errs \o e,
        !.created = IF create THEN Append(p.created, row) ELSE p.created,
        !.lastLat = NoIndex, !.lastLon = NoIndex, !.lastHDOP = NoIndex,
        !.lastTime = zeroTime]

\* Its loop body for record k: gap check, then the switch on the name of the
\* loop's copy of the record.
OldIteration(p, k) ==
  LET sig == p.signals[k]
      g == IF p.lastTime # zeroTime /\ sig.Timestamp - p.lastTime >= allowedLocationGap
             THEN OldTryCreateLocationSignal(p)
             ELSE p
      ref == CASE sig.Name = fieldLatitude -> "lastLat"
               [] sig.Name = fieldLongitude -> "lastLon"
               [] sig.Name = fieldHDOP -> "lastHDOP"
               [] OTHER -> ""
      q == IF g[ref] # NoIndex THEN OldTryCreateLocationSignal(g) ELSE g
      r == [q EXCEPT ![ref] = k]
  IN IF ref = "" THEN g
     ELSE IF r.lastTime = zeroTime
       THEN [r EXCEPT !.lastTime = sig.Timestamp]
       ELSE r

RECURSIVE OldLoop(_, _)
OldLoop(p, k) ==
  IF k > Len(p.signals) THEN OldTryCreateLocationSignal(p)
  ELSE OldLoop(OldIteration(p, k), k + 1)

IsKept(r) == r.Name # dropSignalName

\* Its output: the records not renamed, then the created rows.
OldAssembled(p) == SelectSeq(p.signals, IsKept) \o p.created

\* What the earlier ProcessSignals can return for a batch.
OldResults(batch) ==
  IF batch = <<>> THEN {[out |-> <<>>, errs |-> <<>>]}
  ELSE {LET p == OldLoop(OldPass(sorted, batch[1]), 1)
        IN [out |-> OldAssembled(p), errs |-> p.errs] : sorted \in SortOutcomes(batch)}

\* No record is future-dated, named "__drop", or shares name and timestamp
\* with another record.
GuardsDoNotApply(s) ==
  /\ \A k \in DOMAIN s : ~IsFuture(s[k]) /\ s[k].Name # dropSignalName
  /\ \A j, k \in DOMAIN s :
       (j # k) => ~(s[j].Name = s[k].Name /\ s[j].Timestamp = s[k].Timestamp)

SameAsEarlierVersion ==
  (Returned /\ GuardsDoNotApply(input)) =>
    /\ OldResults(input) = {[out |-> out, errs |-> errs]}
    /\ Results(input) = OldResults(input)

\* C23: on a batch without future-dated records, without two records of one
\* name and timestamp and without a record named "__drop", ProcessSignals
\* with the drop array and the earlier ProcessSignals that renames records
\* return the same slice and the same errors.
C23_VersionsAgree == []SameAsEarlierVersion

\* A returned call on such a batch of three records, passed unsorted, with a
\* record dropped, a row created and an error.
C23_Witness ==
  /\ Returned
  /\ GuardsDoNotApply(input)
  /\ Len(input) = MaxLen
  /\ input # signals
  /\ Count(drop, TRUE) >= 1
  /\ created # <<>>
  /\ errs # <<>>
  /\ OldResults(input) # {}

====
